---- MODULE Spec2Model ----
(***************************************************************************)
(* One invocation of HandleRequest of the PDF barcode processor.           *)
(*                                                                         *)
(* The repository holds two current revisions of the handler:              *)
(*   "pdf_go"   src/processor/pdf.go                                        *)
(*   "part_001" src/unnamed/part_001, second file (lines 237-789)           *)
(* They share the page selection and the scan loop and differ in the       *)
(* validation of the event, the read of the object body, the notifier and  *)
(* the terminal notification.  The variable variant fixes the revision of  *)
(* a behaviour.  The first file of src/unnamed/part_001 (lines 1-236) is   *)
(* an earlier single-barcode handler and is not modelled.                  *)
(*                                                                         *)
(* Strings the code inspects byte by byte (file names, PDF_PAGE_LIMIT,     *)
(* the document bytes) are sequences of one-character strings; strings it  *)
(* only passes on (bucket, key, decoded texts, bodies) are TLA+ strings.   *)
(***************************************************************************)
EXTENDS Integers, Sequences, FiniteSets, TLC

(***************************************************************************)
(* Bounds                                                                  *)
(***************************************************************************)
\* largest number of image files the extractor writes in one invocation
MaxFiles == 3

(***************************************************************************)
(* Bytes and strings                                                       *)
(***************************************************************************)
Digits == {"0", "1", "2", "3", "4", "5", "6", "7", "8", "9"}

\* byte value of a character (ASCII), as compared by sort.Strings
Ord(c) ==
  CASE c = "%" -> 37  [] c = "+" -> 43  [] c = "-" -> 45  [] c = "." -> 46
    [] c = "0" -> 48  [] c = "1" -> 49  [] c = "2" -> 50  [] c = "3" -> 51
    [] c = "4" -> 52  [] c = "5" -> 53  [] c = "6" -> 54  [] c = "7" -> 55
    [] c = "8" -> 56  [] c = "9" -> 57
    [] c = "D" -> 68  [] c = "F" -> 70  [] c = "P" -> 80  [] c = "_" -> 95
    [] c = "a" -> 97  [] c = "d" -> 100 [] c = "e" -> 101 [] c = "f" -> 102
    [] c = "g" -> 103 [] c = "i" -> 105 [] c = "m" -> 109 [] c = "n" -> 110
    [] c = "p" -> 112 [] c = "r" -> 114 [] c = "s" -> 115 [] c = "t" -> 116
    [] c = "u" -> 117 [] c = "x" -> 120

\* Go string comparison a < b: bytewise, a proper prefix is smaller
RECURSIVE StrLess(_, _)
StrLess(a, b) ==
  IF b = << >> THEN FALSE
  ELSE IF a = << >> THEN TRUE
  ELSE IF Ord(Head(a)) # Ord(Head(b)) THEN Ord(Head(a)) < Ord(Head(b))
  ELSE StrLess(Tail(a), Tail(b))

\* value of the decimal digits ds read left to right, starting from n
RECURSIVE DigitsValue(_, _)
DigitsValue(ds, n) ==
  IF ds = << >> THEN n
  ELSE DigitsValue(Tail(ds), n * 10 + (Ord(Head(ds)) - 48))

\* strconv.Atoi on a string shorter than 19 bytes: optional sign, then one
\* or more decimal digits; anything else is a syntax error
Atoi(s) ==
  IF s = << >> THEN [ok |-> FALSE, val |-> 0]
  ELSE LET signed == Head(s) \in {"-", "+"}
           ds     == IF signed THEN Tail(s) ELSE s
       IN  IF ds = << >> \/ \E k \in 1..Len(ds) : ds[k] \notin Digits
             THEN [ok |-> FALSE, val |-> 0]
             ELSE [ok |-> TRUE,
                   val |-> IF Head(s) = "-" THEN 0 - DigitsValue(ds, 0)
                                            ELSE DigitsValue(ds, 0)]

\* strings.Split(s, "_"): cur is the part being read, acc the parts read
RECURSIVE SplitFrom(_, _, _)
SplitFrom(s, cur, acc) ==
  IF s = << >> THEN Append(acc, cur)
  ELSE IF Head(s) = "_" THEN SplitFrom(Tail(s), << >>, Append(acc, cur))
  ELSE SplitFrom(Tail(s), Append(cur, Head(s)), acc)

Split(s) == SplitFrom(s, << >>, << >>)

\* filepath.Ext on a name without path separator: the suffix that starts at
\* the last dot, empty when there is no dot; i scans from the end
RECURSIVE ExtFrom(_, _)
ExtFrom(name, i) ==
  IF i < 1 THEN << >>
  ELSE IF name[i] = "." THEN SubSeq(name, i, Len(name))
  ELSE ExtFrom(name, i - 1)

Ext(name) == ExtFrom(name, Len(name))

\* sort.Strings: insertion of s into the ascending sequence sorted
RECURSIVE InsertSorted(_, _)
InsertSorted(s, sorted) ==
  IF sorted = << >> THEN << s >>
  ELSE IF StrLess(s, Head(sorted)) THEN << s >> \o sorted
  ELSE << Head(sorted) >> \o InsertSorted(s, Tail(sorted))

RECURSIVE SortStrings(_)
SortStrings(seq) ==
  IF seq = << >> THEN << >>
  ELSE InsertSorted(Head(seq), SortStrings(Tail(seq)))

(***************************************************************************)
(* Inputs of an invocation                                                 *)
(***************************************************************************)
\* the two revisions of the handler
Variants == {"pdf_go", "part_001"}

\* values of PDF_PAGE_LIMIT: unset, non-numeric, zero, negative, positive
LimitStrs ==
  { << >>, <<"x">>, <<"0">>, <<"-", "1">>, <<"2">>, <<"1", "0">> }

\* the S3 event: number of records, and bucket and key of the first record
Events ==
  { [records |-> 0, bucket |-> "",       key |-> ""],
    [records |-> 1, bucket |-> "",       key |-> "doc.pdf"],
    [records |-> 1, bucket |-> "bucket", key |-> ""],
    [records |-> 1, bucket |-> "bucket", key |-> "doc.pdf"] }

ValidEvent == [records |-> 1, bucket |-> "bucket", key |-> "doc.pdf"]

\* documents the source provider can yield
DocPool ==
  { << >>,
    <<"%">>,
    <<"%", "P", "D">>,
    <<"x", "P", "D", "F", "-", "1">>,
    <<"%", "P", "D", "F">>,
    <<"%", "P", "D", "F", "-", "1">> }

InputPDF == <<"i", "n", "p", "u", "t", ".", "p", "d", "f">>
PagesDir == <<"p", "a", "g", "e", "s">>
Page1    == <<"p", "a", "g", "e", "_", "1", "_", "a", ".", "p", "n", "g">>
Page2    == <<"p", "a", "g", "e", "_", "2", "_", "a", ".", "p", "n", "g">>
Page10   == <<"p", "a", "g", "e", "_", "1", "0", "_", "a", ".", "p", "n", "g">>
PageX    == <<"p", "a", "g", "e", "_", "x", "_", "a", ".", "p", "n", "g">>
Page1PDF == <<"p", "a", "g", "e", "_", "1", "_", "a", ".", "p", "d", "f">>
Readme   == <<"r", "e", "a", "d", "m", "e", ".", "t", "x", "t">>

\* names of the files the image extractor can write into the directory
ExtractNames == {Page1, Page2, Page10, PageX, Page1PDF, Readme}

ExtractSets == {fs \in SUBSET ExtractNames : Cardinality(fs) <= MaxFiles}

\* the readers of the cascade, in the order of the readers slice
Readers == <<"UPC/EAN", "Code128", "Code39", "Code93", "ITF", "CodaBar">>

NotFound(r) == [ok |-> FALSE, text |-> "", err |-> "NotFoundException"]
Found(t)    == [ok |-> TRUE, text |-> t, err |-> "nil"]

\* a decoded page image: whether the binary bitmap of the preprocessed
\* image can be built, and what each reader's Decode returns on it
ImgBlank ==
  [bitmapOK |-> TRUE, decode |-> [r \in 1..6 |-> NotFound(r)]]
ImgDegenerate ==
  [bitmapOK |-> FALSE, decode |-> [r \in 1..6 |-> NotFound(r)]]
ImgCode128 ==
  [bitmapOK |-> TRUE,
   decode |-> [r \in 1..6 |-> IF r = 2 THEN Found("ABC123") ELSE NotFound(r)]]
ImgTwoFormats ==
  [bitmapOK |-> TRUE,
   decode |-> [r \in 1..6 |-> IF r = 1 THEN Found("0123")
                              ELSE IF r = 3 THEN Found("ABC123")
                              ELSE NotFound(r)]]
ImgCode93Empty ==
  [bitmapOK |-> TRUE,
   decode |-> [r \in 1..6 |-> IF r = 4 THEN Found("") ELSE NotFound(r)]]

ImagePool == {ImgBlank, ImgDegenerate, ImgCode128, ImgTwoFormats, ImgCode93Empty}

\* what one reader's Decode can return: one of two errors, a text, or a
\* result with an empty text
ReaderOutcomes ==
  {[ok |-> FALSE, text |-> "", err |-> e] :
     e \in {"NotFoundException", "ChecksumException"}}
    \cup {Found("ABC123"), Found("0123"), Found("")}

\* the nil image.Image, which the test passes as its invalid image
NilImage ==
  [isNil |-> TRUE, bitmapOK |-> FALSE,
   decode |-> [r \in 1..Len(Readers) |-> NotFound(r)]]

\* every image as the cascade sees it, and the nil image
DecodeInputs ==
  {[isNil |-> FALSE, bitmapOK |-> b, decode |-> d] :
     b \in BOOLEAN, d \in [1..Len(Readers) -> ReaderOutcomes]}
    \cup {NilImage}

\* the largest number of regions of one colour an image is made of
MaxRegions == 3

\* a pixel as img.At(x, y).RGBA() gives it after the shift by 8
Colour(r, g, b) == [r |-> r, g |-> g, b |-> b]
Grey(v) == Colour(v, v, v)

Palette ==
  {Grey(0), Grey(21), Grey(100), Grey(121), Grey(128), Grey(129), Grey(130),
   Grey(240), Colour(31, 203, 5), Colour(255, 0, 0), Grey(255)}

\* image.Rect(x0, y0, x1, y1)
Rect(x0, y0, x1, y1) == [minX |-> x0, minY |-> y0, maxX |-> x1, maxY |-> y1]

BoundsPool ==
  {Rect(0, 0, 50, 50), Rect(0, 0, 99, 100), Rect(0, 0, 100, 99),
   Rect(0, 0, 100, 100), Rect(0, 0, 200, 200), Rect(10, 20, 110, 120),
   Rect(10, 20, 60, 220)}

\* an image: its bounds and the colours of its regions (every pixel lies
\* in one region and has the colour of that region)
EmptyRaster == [bounds |-> Rect(0, 0, 0, 0), pix |-> << >>]

Rasters ==
  {[bounds |-> b, pix |-> p] :
     b \in BoundsPool, p \in UNION {[1..n -> Palette] : n \in 1..MaxRegions}}
    \cup {EmptyRaster}

\* how the compiled code evaluates a*r + b*g + c*b: every product rounded
\* before it is added, or the first or the second product of the first
\* sum fused into the addition (the Go specification allows x*y + z to be
\* fused, and the arm64 compiler does it)
Builds == {"separate", "fused_first", "fused_second"}

\* what the remote end does with an HTTP request of the notifier
Remotes == {"transport_error", "status_200", "status_500"}

(***************************************************************************)
(* Go values                                                               *)
(***************************************************************************)
\* a []string: the nil slice and the empty slice differ only in JSON
NilSlice     == [isNil |-> TRUE, elems |-> << >>]
EmptySlice   == [isNil |-> FALSE, elems |-> << >>]
AppendSlice(s, x) == [isNil |-> FALSE, elems |-> Append(s.elems, x)]

\* json.Marshal of a []string field: null for the nil slice, an array
\* (possibly empty) otherwise
MarshalStrings(s) == [null |-> s.isNil, items |-> s.elems]

\* json.Marshal(ResponseBody{...})
ResponseBody(b, k, barcodes) ==
  [kind |-> "json", bucket |-> b, key |-> k,
   barcodes |-> MarshalStrings(barcodes)]

\* a plain-text response body
TextBody(t) == [kind |-> "text", text |-> t]

NoResponse == [status |-> 0, body |-> TextBody("")]

(***************************************************************************)
(* Pure parts of the handler                                               *)
(***************************************************************************)
\* first reading of PDF_PAGE_LIMIT
FirstPageLimit(limitStr) ==
  IF limitStr # << >> /\ Atoi(limitStr).ok /\ Atoi(limitStr).val > 0
    THEN Atoi(limitStr).val
    ELSE 1

\* second reading of PDF_PAGE_LIMIT, which replaces the first
SecondPageLimit(limitStr) ==
  LET pageRange == IF limitStr = << >> THEN <<"1">> ELSE limitStr
  IN  IF Atoi(pageRange).ok THEN Atoi(pageRange).val ELSE 1

\* ValidatePDF without the check of the "%PDF" header
ValidatePDF_noHeaderCheck(bytes) ==
  IF Len(bytes) = 0 THEN "empty" ELSE "ok"

\* the document checks: "ok", "empty" or "invalid"
ValidatePDF(bytes) ==
  IF Len(bytes) = 0 THEN "empty"
  ELSE IF Len(bytes) < 4 \/ SubSeq(bytes, 1, 4) # <<"%", "P", "D", "F">>
    THEN "invalid"
  ELSE "ok"

\* Selects with the page compared by < instead of <=
Selects_strictlyBelow(file, limit) ==
  /\ ~file.isDir
  /\ Ext(file.name) # <<".", "p", "d", "f">>
  /\ LET parts == Split(file.name)
     IN  /\ Len(parts) >= 2
         /\ Atoi(parts[2]).ok
         /\ Atoi(parts[2]).val < limit

\* whether the selection loop appends the directory entry
Selects(file, limit) ==
  /\ ~file.isDir
  /\ Ext(file.name) # <<".", "p", "d", "f">>
  /\ LET parts == Split(file.name)
     IN  /\ Len(parts) >= 2
         /\ Atoi(parts[2]).ok
         /\ Atoi(parts[2]).val <= limit

\* the selection loop over the listing, in listing order
RECURSIVE SelectFiles(_, _)
SelectFiles(files, limit) ==
  IF files = << >> THEN << >>
  ELSE IF Selects(Head(files), limit)
    THEN << Head(files).name >> \o SelectFiles(Tail(files), limit)
  ELSE SelectFiles(Tail(files), limit)

\* ProcessOrder sorting by page number first, by name among equal pages
PageOf(name) == Atoi(Split(name)[2]).val

RECURSIVE InsertByPage(_, _)
InsertByPage(s, sorted) ==
  IF sorted = << >> THEN << s >>
  ELSE IF \/ PageOf(s) < PageOf(Head(sorted))
          \/ PageOf(s) = PageOf(Head(sorted)) /\ StrLess(s, Head(sorted))
    THEN << s >> \o sorted
  ELSE << Head(sorted) >> \o InsertByPage(s, Tail(sorted))

RECURSIVE ProcessOrder_byPage(_)
ProcessOrder_byPage(selected) ==
  IF selected = << >> THEN << >>
  ELSE InsertByPage(Head(selected), ProcessOrder_byPage(Tail(selected)))

\* the order in which the selected names are scanned
ProcessOrder(selected) == SortStrings(selected)

\* os.ReadDir: the entries of the directory sorted by file name
RECURSIVE ReadDirFrom(_, _)
ReadDirFrom(names, entries) ==
  IF names = << >> THEN << >>
  ELSE << CHOOSE e \in entries : e.name = Head(names) >>
         \o ReadDirFrom(Tail(names), entries)

RECURSIVE SetToSeq(_)
SetToSeq(S) ==
  IF S = {} THEN << >>
  ELSE LET x == CHOOSE y \in S : TRUE IN << x >> \o SetToSeq(S \ {x})

ReadDir(entries) ==
  ReadDirFrom(SortStrings(SetToSeq({e.name : e \in entries})), entries)

\* the colours of the palette for which the float64 sum
\* 0.299*r + 0.587*g + 0.114*b, whose exact value is an integer, comes out
\* below that integer (IEEE 754 binary64, round to nearest even)
FallsBelow(c, fma) ==
  IF fma = "separate" THEN c \in {Grey(128), Colour(31, 203, 5)}
  ELSE IF fma = "fused_first"
    THEN c \in {Grey(21), Grey(128), Colour(31, 203, 5)}
  ELSE c \in {Grey(21), Grey(128), Grey(255)}

\* grayVal: the float64 luminance converted to uint8, which truncates; the
\* float64 sum lies below the next integer whenever the exact sum does, and
\* can lie below the exact sum only by rounding
GrayVal(c, fma) ==
  LET sum1000 == 299 * c.r + 587 * c.g + 114 * c.b
  IN  IF sum1000 % 1000 = 0 /\ FallsBelow(c, fma)
        THEN sum1000 \div 1000 - 1
        ELSE sum1000 \div 1000

\* min and max after the first pass, which starts from 255 and 0
RECURSIVE MinGray(_, _)
MinGray(gray, min) ==
  IF gray = << >> THEN min
  ELSE MinGray(Tail(gray), IF Head(gray) < min THEN Head(gray) ELSE min)

RECURSIVE MaxGray(_, _)
MaxGray(gray, max) ==
  IF gray = << >> THEN max
  ELSE MaxGray(Tail(gray), IF Head(gray) > max THEN Head(gray) ELSE max)

Dx(b) == b.maxX - b.minX
Dy(b) == b.maxY - b.minY

\* IsSmall that asks for both sides to be short
IsSmall_bothSides(b) == Dx(b) < 100 /\ Dy(b) < 100

\* bounds.Dx() < 100 || bounds.Dy() < 100
IsSmall(b) == Dx(b) < 100 \/ Dy(b) < 100

\* LowContrast with the limit one lower
LowContrast_below29(min, max) == (max - min) % 256 < 29

\* LowContrast that never holds: every image is stretched
LowContrast_never(min, max) == FALSE

\* max-min < 30, the difference being a uint8
LowContrast(min, max) == (max - min) % 256 < 30

\* Normalize that rounds to the nearest integer
Normalize_rounded(original, min, max) ==
  IF (max - min) % 256 = 0 THEN 0
  ELSE ((2 * ((original - min) % 256) * 255 + ((max - min) % 256))
          \div (2 * ((max - min) % 256))) % 256

\* uint8((float64(original-min) / float64(max-min)) * 255): the float64
\* quotient times 255 truncates to the floor of the exact value for all
\* 0 <= original-min <= max-min <= 255; the value is left at 0 where the
\* divisor is 0
Normalize(original, min, max) ==
  IF (max - min) % 256 = 0 THEN 0
  ELSE ((((original - min) % 256) * 255) \div ((max - min) % 256)) % 256

\* Threshold that keeps the normalized value
Threshold_keep(normalized) == normalized

\* if normalized > 128 { 255 } else { 0 }
Threshold(normalized) == IF normalized > 128 THEN 255 ELSE 0

\* the bounds of image.NewGray(bounds)
NewGray(b) == b

\* preprocessImage: the bounds and the pixels of the image returned, and
\* whether the second pass divided by zero
preprocessImage(image, fma) ==
  LET gray  == [k \in 1..Len(image.pix) |-> GrayVal(image.pix[k], fma)]
      small == IsSmall(image.bounds)
      min   == IF small THEN 0 ELSE MinGray(gray, 255)
      max   == IF small THEN 255 ELSE MaxGray(gray, 0)
  IN  IF ~small /\ LowContrast(min, max)
        THEN [bounds |-> NewGray(image.bounds), pix |-> gray,
              divByZero |-> FALSE]
        ELSE [bounds |-> NewGray(image.bounds),
              pix |-> [k \in 1..Len(gray) |->
                         Threshold(Normalize(gray[k], min, max))],
              divByZero |-> gray # << >> /\ (max - min) % 256 = 0]

\* TryReaders that goes on after a success and returns the last one
RECURSIVE TryReaders_lastSuccess(_, _, _, _)
TryReaders_lastSuccess(img, r, lastErr, tried) ==
  IF r > Len(Readers)
    THEN [text |-> "", err |-> "no barcode found",
          lastErr |-> lastErr, tried |-> tried]
  ELSE LET rest == TryReaders_lastSuccess(
                     img, r + 1,
                     IF img.decode[r].ok THEN lastErr
                     ELSE [reader |-> Readers[r],
                           reason |-> img.decode[r].err],
                     Append(tried, Readers[r]))
       IN  IF img.decode[r].ok /\ rest.err # "nil"
             THEN [text |-> img.decode[r].text, err |-> "nil",
                   lastErr |-> lastErr, tried |-> rest.tried]
             ELSE rest

\* TryReaders that keeps the first failure as lastErr
RECURSIVE TryReaders_firstError(_, _, _, _)
TryReaders_firstError(img, r, lastErr, tried) ==
  IF r > Len(Readers)
    THEN [text |-> "", err |-> "no barcode found",
          lastErr |-> lastErr, tried |-> tried]
  ELSE IF img.decode[r].ok
    THEN [text |-> img.decode[r].text, err |-> "nil",
          lastErr |-> lastErr, tried |-> Append(tried, Readers[r])]
  ELSE TryReaders_firstError(
         img, r + 1,
         IF lastErr.reader = "none"
           THEN [reader |-> Readers[r], reason |-> img.decode[r].err]
           ELSE lastErr,
         Append(tried, Readers[r]))

\* the reader loop of extractBarcodeFromImage from reader r on: the text
\* and error returned and the readers invoked, lastErr being the error of
\* the reader before r
RECURSIVE TryReaders(_, _, _, _)
TryReaders(img, r, lastErr, tried) ==
  IF r > Len(Readers)
    THEN [text |-> "", err |-> "no barcode found",
          lastErr |-> lastErr, tried |-> tried]
  ELSE IF img.decode[r].ok
    THEN [text |-> img.decode[r].text, err |-> "nil",
          lastErr |-> lastErr, tried |-> Append(tried, Readers[r])]
  ELSE TryReaders(img, r + 1,
                  [reader |-> Readers[r], reason |-> img.decode[r].err],
                  Append(tried, Readers[r]))

NoErr == [reader |-> "none", reason |-> "nil"]

extractBarcodeFromImage(img) ==
  IF ~img.bitmapOK
    THEN [text |-> "", err |-> "error creating binary bitmap",
          lastErr |-> NoErr, tried |-> << >>]
    ELSE TryReaders(img, 1, NoErr, << >>)

\* the status code of the answer of the remote end, 0 when there is none
RemoteStatus(remote) ==
  IF remote = "status_200" THEN 200
  ELSE IF remote = "status_500" THEN 500
  ELSE 0

\* the answer of the remote end as the error of the notifier
RemoteError(remote) ==
  IF remote = "transport_error" THEN "error making request"
  ELSE IF remote # "status_200" THEN "non-200 status"
  ELSE "nil"

\* callRubyEndpoint of pdf.go: whether an HTTP request is sent and the error
\* returned; it reads API_ENDPOINT only
callRubyEndpoint_pdf_go(endpoint, token, remote) ==
  IF ~endpoint
    THEN [sent |-> FALSE, status |-> 0, err |-> "endpoint not set"]
  ELSE [sent |-> TRUE, status |-> RemoteStatus(remote),
        err |-> RemoteError(remote)]

\* makeWebhookRequest of part_001: WEBHOOK_TOKEN is read before the request
\* is made
makeWebhookRequest(token, remote) ==
  IF ~token
    THEN [sent |-> FALSE, status |-> 0, err |-> "webhook token error"]
  ELSE [sent |-> TRUE, status |-> RemoteStatus(remote),
        err |-> RemoteError(remote)]

\* callRubyEndpoint of part_001: it reads WEBHOOK_URL, then makes the
\* request through makeWebhookRequest
callRubyEndpoint_part_001(endpoint, token, remote) ==
  IF ~endpoint
    THEN [sent |-> FALSE, status |-> 0, err |-> "endpoint not set"]
  ELSE makeWebhookRequest(token, remote)

\* the notifier of revision v
callRubyEndpoint(v, endpoint, token, remote) ==
  IF v = "pdf_go" THEN callRubyEndpoint_pdf_go(endpoint, token, remote)
  ELSE callRubyEndpoint_part_001(endpoint, token, remote)

(***************************************************************************)
(* State                                                                   *)
(***************************************************************************)
VARIABLES
  variant,       \* the revision of the handler that runs
  testMode,      \* TEST_PDF_PATH is set: the document is a local file
  limitStr,      \* PDF_PAGE_LIMIT
  event,         \* the S3 event passed to the handler
  endpointSet,   \* the notifier's endpoint variable is set
  tokenSet,      \* WEBHOOK_TOKEN is set
  testDebug,     \* TEST_DEBUG is "true"
  pc,            \* position of the handler
  pageLimit,     \* local pageLimit
  bucket,        \* local bucket
  key,           \* local key
  pdfBytes,      \* local pdfBytes
  fetched,       \* the document bytes were read from the file or the object
  storageCalls,  \* number of GetObject calls made
  readLate,      \* the body was still being read 30 seconds after GetObject
  tmpDir,        \* "none", "exists" or "removed"
  dirEntries,    \* entries of the temporary directory
  extractCalls,  \* number of ExtractImagesFile calls made
  debugCopies,   \* names of the files written to /tmp/pdf-debug
  processFiles,  \* local processFiles
  idx,           \* 1-based position of the scan loop in processFiles
  foundBarcodes, \* local foundBarcodes
  scanLog,       \* per iteration of the scan loop: file and what happened
  notifications, \* calls of callRubyEndpoint, in order
  response,      \* the Response returned
  err,           \* the error returned, "nil" for nil
  raster,        \* preprocessImage: the image passed
  fusedMulAdd,   \* preprocessImage: how the build fuses x*y + z
  processed,     \* preprocessImage: the image returned
  img,           \* extractBarcodeFromImage: the image passed
  decoded,       \* extractBarcodeFromImage: what it returned
  ipc            \* position of the call of the image function

inputs == << variant, testMode, limitStr, event, endpointSet, tokenSet,
             testDebug >>
imagev == << raster, fusedMulAdd, processed, img, decoded, ipc >>
handlerv == << variant, testMode, limitStr, event, endpointSet, tokenSet,
               testDebug, pc, pageLimit, bucket, key, pdfBytes, fetched,
               storageCalls, readLate, tmpDir, dirEntries, extractCalls,
               debugCopies, processFiles, idx, foundBarcodes, scanLog,
               notifications, response, err >>
fetchv == << bucket, key, pdfBytes, fetched, storageCalls >>
scanv  == << processFiles, idx, foundBarcodes, scanLog, notifications >>
vars   == << handlerv, imagev >>

\* before HandleRequest runs
HandlerStart ==
  /\ pc = "start"
  /\ pageLimit = 0
  /\ bucket = ""
  /\ key = ""
  /\ pdfBytes = << >>
  /\ fetched = FALSE
  /\ storageCalls = 0
  /\ readLate = FALSE
  /\ tmpDir = "none"
  /\ dirEntries = {}
  /\ extractCalls = 0
  /\ debugCopies = {}
  /\ processFiles = << >>
  /\ idx = 0
  /\ foundBarcodes = NilSlice
  /\ scanLog = << >>
  /\ notifications = << >>
  /\ response = NoResponse
  /\ err = "nil"

NoImage == [bounds |-> Rect(0, 0, 0, 0), pix |-> << >>, divByZero |-> FALSE]
NoResult == [text |-> "", err |-> "nil", lastErr |-> NoErr, tried |-> << >>]

\* no image function is called
ImageIdle ==
  /\ raster = EmptyRaster
  /\ fusedMulAdd = "separate"
  /\ processed = NoImage
  /\ img = ImgBlank
  /\ decoded = NoResult
  /\ ipc = "idle"

Init ==
  /\ variant \in Variants
  /\ testMode \in BOOLEAN
  /\ limitStr \in LimitStrs
  /\ event \in IF testMode THEN {ValidEvent} ELSE Events
  /\ endpointSet \in BOOLEAN
  /\ tokenSet \in BOOLEAN
  /\ testDebug \in BOOLEAN
  /\ HandlerStart
  /\ ImageIdle

(***************************************************************************)
(* The handler                                                             *)
(***************************************************************************)
\* Return that hands back a nil error whatever the status
Return_withNilError(status, body, e) ==
  /\ response' = [status |-> status, body |-> body]
  /\ err' = "nil"
  /\ pc' = "done"
  /\ tmpDir' = IF tmpDir = "exists" THEN "removed" ELSE tmpDir
  /\ dirEntries' = IF tmpDir = "exists" THEN {} ELSE dirEntries

\* Return without the deferred os.RemoveAll
Return_withoutRemoveAll(status, body, e) ==
  /\ response' = [status |-> status, body |-> body]
  /\ err' = e
  /\ pc' = "done"
  /\ UNCHANGED << tmpDir, dirEntries >>

\* return Response{status, body}, e; the deferred os.RemoveAll(tmpDir) runs
\* when the directory was created
Return(status, body, e) ==
  /\ response' = [status |-> status, body |-> body]
  /\ err' = e
  /\ pc' = "done"
  /\ tmpDir' = IF tmpDir = "exists" THEN "removed" ELSE tmpDir
  /\ dirEntries' = IF tmpDir = "exists" THEN {} ELSE dirEntries

\* first reading of the page limit
Start ==
  /\ pc = "start"
  /\ pageLimit' = FirstPageLimit(limitStr)
  /\ pc' = IF testMode THEN "read_local" ELSE "event"
  /\ UNCHANGED << inputs, imagev, debugCopies, readLate, fetchv, tmpDir, dirEntries, extractCalls, scanv,
                  response, err >>

\* ReadTestPDF that drops the error of os.ReadFile and goes on with no
\* bytes
ReadTestPDF_emptyOnError ==
  /\ pc = "read_local"
  /\ \/ /\ pdfBytes' = << >>
        /\ UNCHANGED fetched
     \/ /\ \E doc \in DocPool : pdfBytes' = doc
        /\ fetched' = TRUE
  /\ key' = "local.pdf"
  /\ bucket' = "test-bucket"
  /\ pc' = "validate"
  /\ UNCHANGED << inputs, imagev, debugCopies, readLate, pageLimit,
                  storageCalls, tmpDir, dirEntries, extractCalls, scanv,
                  response, err >>

\* local mode: os.ReadFile(testPath)
ReadTestPDF ==
  /\ pc = "read_local"
  /\ \/ /\ Return(500, TextBody("Error reading test PDF"), "read error")
        /\ UNCHANGED << inputs, imagev, debugCopies, readLate, pageLimit, fetchv, extractCalls, scanv >>
     \/ /\ \E doc \in DocPool : pdfBytes' = doc
        /\ fetched' = TRUE
        /\ key' = "local.pdf"
        /\ bucket' = "test-bucket"
        /\ pc' = "validate"
        /\ UNCHANGED << inputs, imagev, debugCopies, readLate, pageLimit, storageCalls, tmpDir, dirEntries,
                        extractCalls, scanv, response, err >>

\* storage mode of pdf.go: the first record of the event is read without a
\* check, which panics (index out of range) when there is none
ReadEvent_pdf_go ==
  /\ pc = "event"
  /\ variant = "pdf_go"
  /\ \/ /\ event.records = 0
        /\ pc' = "panic"
        /\ UNCHANGED << bucket, key >>
     \/ /\ event.records > 0
        /\ bucket' = event.bucket
        /\ key' = event.key
        /\ pc' = "s3client"
  /\ UNCHANGED << inputs, imagev, debugCopies, readLate, pageLimit, pdfBytes, fetched, storageCalls, tmpDir,
                  dirEntries, extractCalls, scanv, response, err >>

\* storage mode of part_001: the event is checked for a record, a bucket
\* and a key
ReadEvent_part_001 ==
  /\ pc = "event"
  /\ variant = "part_001"
  /\ \/ /\ event.records = 0
        /\ Return(400, TextBody("No S3 event records"), "no S3 event records")
        /\ UNCHANGED << bucket, key >>
     \/ /\ event.records > 0
        /\ bucket' = event.bucket
        /\ key' = event.key
        /\ IF event.bucket = "" \/ event.key = ""
             THEN Return(400, TextBody("Invalid S3 event: missing bucket or key"),
                         "invalid S3 event")
             ELSE /\ pc' = "s3client"
                  /\ UNCHANGED << tmpDir, dirEntries, response, err >>
  /\ UNCHANGED << inputs, imagev, debugCopies, readLate, pageLimit, pdfBytes, fetched, storageCalls,
                  extractCalls, scanv >>

\* getS3Client()
InitS3Client ==
  /\ pc = "s3client"
  /\ \/ /\ Return(500, TextBody("Error initializing S3 client"), "config error")
        /\ UNCHANGED << inputs, imagev, debugCopies, readLate, pageLimit, fetchv, extractCalls, scanv >>
     \/ /\ pc' = "getobject"
        /\ UNCHANGED << inputs, imagev, debugCopies, readLate, pageLimit, fetchv, tmpDir, dirEntries,
                        extractCalls, scanv, response, err >>

\* s3Client.GetObject
GetObject ==
  /\ pc = "getobject"
  /\ storageCalls' = storageCalls + 1
  /\ \/ /\ Return(500, TextBody("Error getting object from S3"), "GetObject error")
        /\ UNCHANGED << inputs, imagev, debugCopies, readLate, pageLimit, bucket, key, pdfBytes, fetched,
                        extractCalls, scanv >>
     \/ /\ pc' = "readbody"
        /\ UNCHANGED << inputs, imagev, debugCopies, readLate, pageLimit, bucket, key, pdfBytes, fetched,
                        tmpDir, dirEntries, extractCalls, scanv, response,
                        err >>

\* pdf.go: buf.ReadFrom(result.Body), which no deadline bounds (the
\* context is context.TODO()): it returns when the body ends or fails,
\* within 30 seconds or later, or it does not return at all
ReadBody_pdf_go ==
  /\ pc = "readbody"
  /\ variant = "pdf_go"
  /\ \/ /\ Return(500, TextBody("Error reading PDF"), "read error")
        /\ readLate' \in BOOLEAN
        /\ UNCHANGED << pdfBytes, fetched >>
     \/ /\ \E doc \in DocPool : pdfBytes' = doc
        /\ readLate' \in BOOLEAN
        /\ fetched' = TRUE
        /\ pc' = "validate"
        /\ UNCHANGED << tmpDir, dirEntries, response, err >>
     \/ /\ pc' = "blocked"
        /\ readLate' = TRUE
        /\ UNCHANGED << pdfBytes, fetched, tmpDir, dirEntries, response, err >>
  /\ UNCHANGED << inputs, imagev, debugCopies, pageLimit, bucket, key,
                  storageCalls, extractCalls, scanv >>

\* part_001: io.Copy of the body in a goroutine, awaited for 30 seconds,
\* and an empty object rejected at once
ReadBody_part_001 ==
  /\ pc = "readbody"
  /\ variant = "part_001"
  /\ \/ /\ Return(500, TextBody("Timeout reading PDF from S3"),
                  "timeout reading PDF")
        /\ readLate' = TRUE
        /\ UNCHANGED << pdfBytes, fetched >>
     \/ /\ Return(500, TextBody("Error reading PDF from S3"), "read error")
        /\ UNCHANGED << pdfBytes, fetched, readLate >>
     \/ /\ \E doc \in DocPool :
             /\ pdfBytes' = doc
             /\ IF Len(doc) = 0
                  THEN Return(400, TextBody("Empty PDF file from S3"),
                              "empty PDF file from S3")
                  ELSE /\ pc' = "validate"
                       /\ UNCHANGED << tmpDir, dirEntries, response, err >>
        /\ fetched' = TRUE
        /\ UNCHANGED readLate
  /\ UNCHANGED << inputs, imagev, debugCopies, pageLimit, bucket, key,
                  storageCalls, extractCalls, scanv >>

\* the checks of the document bytes
Validate ==
  /\ pc = "validate"
  /\ LET v == ValidatePDF(pdfBytes)
     IN  \/ /\ v = "empty"
            /\ Return(400, TextBody("Empty PDF file"), "empty PDF file")
         \/ /\ v = "invalid"
            /\ Return(400, TextBody("Invalid PDF format"), "invalid PDF format")
         \/ /\ v = "ok"
            /\ pc' = "mktemp"
            /\ UNCHANGED << tmpDir, dirEntries, response, err >>
  /\ UNCHANGED << inputs, imagev, debugCopies, readLate, pageLimit, fetchv, extractCalls, scanv >>

\* os.MkdirTemp and the deferred os.RemoveAll
MkdirTemp ==
  /\ pc = "mktemp"
  /\ \/ Return(500, TextBody("Error creating temp directory"), "mkdir error")
     \/ /\ tmpDir' = "exists"
        /\ pc' = "writepdf"
        /\ UNCHANGED << dirEntries, response, err >>
  /\ UNCHANGED << inputs, imagev, debugCopies, readLate, pageLimit, fetchv, extractCalls, scanv >>

\* os.WriteFile(tmpDir/input.pdf)
WriteTmpPDF ==
  /\ pc = "writepdf"
  /\ \/ Return(500, TextBody("Error writing temporary PDF"), "write error")
     \/ /\ dirEntries' = dirEntries \cup {[name |-> InputPDF, isDir |-> FALSE]}
        /\ pc' = "pagesdir"
        /\ UNCHANGED << tmpDir, response, err >>
  /\ UNCHANGED << inputs, imagev, debugCopies, readLate, pageLimit, fetchv, extractCalls, scanv >>

\* os.MkdirAll(tmpDir/pages) and the second reading of the page limit
MkPagesDir ==
  /\ pc = "pagesdir"
  /\ \/ /\ Return(500, TextBody("Error creating pages directory"), "mkdir error")
        /\ UNCHANGED pageLimit
     \/ /\ dirEntries' = dirEntries \cup {[name |-> PagesDir, isDir |-> TRUE]}
        /\ pageLimit' = SecondPageLimit(limitStr)
        /\ pc' = "extract"
        /\ UNCHANGED << tmpDir, response, err >>
  /\ UNCHANGED << inputs, imagev, debugCopies, readLate, fetchv, extractCalls, scanv >>

\* api.ExtractImagesFile(tmpPDF, tmpDir)
ExtractImages ==
  /\ pc = "extract"
  /\ extractCalls' = extractCalls + 1
  /\ \/ Return(500, TextBody("Error extracting images from PDF"), "extract error")
     \/ /\ \E fs \in ExtractSets :
             dirEntries' = dirEntries
                             \cup {[name |-> n, isDir |-> FALSE] : n \in fs}
        /\ pc' = "debug"
        /\ UNCHANGED << tmpDir, response, err >>
  /\ UNCHANGED << inputs, imagev, debugCopies, readLate, pageLimit, fetchv, scanv >>

\* the files the debug block copies: those that are no directory and do
\* not end in .pdf
DebugFiles(entries) ==
  {e.name : e \in {f \in entries : ~f.isDir /\ Ext(f.name) # <<".", "p", "d", "f">>}}

\* the debug block: with TEST_DEBUG=true the extracted files are written
\* to /tmp/pdf-debug, a directory the handler neither creates nor removes;
\* nothing is written when the directory is missing or cannot be listed,
\* the errors of ReadDir, ReadFile and WriteFile being dropped
DebugCopy ==
  /\ pc = "debug"
  /\ IF testDebug
       THEN \E debugDirExists \in BOOLEAN :
              debugCopies' = IF debugDirExists THEN DebugFiles(dirEntries)
                                              ELSE {}
       ELSE UNCHANGED debugCopies
  /\ pc' = "list"
  /\ UNCHANGED << inputs, imagev, readLate, pageLimit, fetchv, tmpDir,
                  dirEntries, extractCalls, scanv, response, err >>

\* os.ReadDir(tmpDir), the selection loop and sort.Strings
ListFiles ==
  /\ pc = "list"
  /\ \/ /\ Return(500, TextBody("Error reading extracted images"), "readdir error")
        /\ UNCHANGED scanv
     \/ /\ processFiles' =
             ProcessOrder(SelectFiles(ReadDir(dirEntries), pageLimit))
        /\ idx' = 1
        /\ pc' = "scan"
        /\ UNCHANGED << tmpDir, dirEntries, response, err, foundBarcodes,
                        scanLog, notifications >>
  /\ UNCHANGED << inputs, imagev, debugCopies, readLate, pageLimit, fetchv, extractCalls >>

\* what loading and decoding a selected file can give: os.Open fails,
\* image.Decode fails, or an image
FileOutcomes ==
  {[load |-> l, img |-> ImgBlank] : l \in {"open_error", "image_error"}}
    \cup {[load |-> "ok", img |-> i] : i \in ImagePool}

\* the branch of the loop body taken for the result of one file
\* ("skip" for the two continue statements)
PageResult(outcome) ==
  IF outcome.load # "ok"
    THEN [branch |-> "skip", text |-> "", err |-> outcome.load]
  ELSE LET res == extractBarcodeFromImage(outcome.img)
       IN  IF res.err # "nil"
             THEN [branch |-> "failed", text |-> "", err |-> res.err]
           ELSE IF res.text # ""
             THEN [branch |-> "found", text |-> res.text, err |-> "nil"]
           ELSE [branch |-> "empty", text |-> "", err |-> "nil"]

\* CollectBarcode that leaves out a text the batch already holds
CollectBarcode_distinct(found, text, notifyErr) ==
  IF \E k \in 1..Len(found.elems) : found.elems[k] = text
    THEN found
    ELSE AppendSlice(found, text)

\* CollectBarcode that keeps the text only when its notification succeeded
CollectBarcode_whenNotified(found, text, notifyErr) ==
  IF notifyErr = "nil" THEN AppendSlice(found, text) ELSE found

\* foundBarcodes after an iteration that decoded text and whose per-page
\* notification returned notifyErr: the append precedes the notification
CollectBarcode(found, text, notifyErr) == AppendSlice(found, text)

\* NextFile that leaves the loop at the first file that fails
NextFile_stopOnFailure(i, n, branch) ==
  IF branch \in {"skip", "failed"} THEN n + 1 ELSE i + 1

\* the loop position after the iteration at position i of n files
NextFile(i, n, branch) == i + 1

\* Notification that leaves the document key out of the payload
Notification_withoutKey(kind, at, k, barcodes, call) ==
  [kind |-> kind, at |-> at, s3key |-> "", barcodes |-> barcodes,
   sent |-> call.sent, status |-> call.status, err |-> call.err]

\* the record of one call of callRubyEndpoint
Notification(kind, at, k, barcodes, call) ==
  [kind |-> kind, at |-> at, s3key |-> k, barcodes |-> barcodes,
   sent |-> call.sent, status |-> call.status, err |-> call.err]

\* one iteration of the scan loop
ScanFile ==
  /\ pc = "scan"
  /\ idx <= Len(processFiles)
  /\ \E outcome \in FileOutcomes, remote \in Remotes :
       LET r    == PageResult(outcome)
           call == callRubyEndpoint(variant, endpointSet, tokenSet, remote)
       IN  /\ scanLog' = Append(scanLog,
                                [file |-> processFiles[idx],
                                 branch |-> r.branch, text |-> r.text])
           /\ IF r.branch = "found"
                THEN /\ foundBarcodes' =
                          CollectBarcode(foundBarcodes, r.text, call.err)
                     /\ notifications' =
                          Append(notifications,
                                 Notification("page", idx, key,
                                              << r.text >>, call))
                ELSE UNCHANGED << foundBarcodes, notifications >>
           /\ idx' = NextFile(idx, Len(processFiles), r.branch)
  /\ UNCHANGED << inputs, imagev, debugCopies, readLate, pc, pageLimit, fetchv, tmpDir, dirEntries,
                  extractCalls, processFiles, response, err >>

\* ResponseBarcodes that passes foundBarcodes on as it is
ResponseBarcodes_asFound(found) == found

\* the Barcodes field of the response: foundBarcodes when it has elements,
\* []string{} otherwise
ResponseBarcodes(found) ==
  IF Len(found.elems) > 0 THEN found ELSE EmptySlice

\* pdf.go after the scan loop: the response, and no call of the notifier
Finish_pdf_go ==
  /\ pc = "scan"
  /\ variant = "pdf_go"
  /\ idx > Len(processFiles)
  /\ Return(200, ResponseBody(bucket, key, ResponseBarcodes(foundBarcodes)),
            "nil")
  /\ UNCHANGED << inputs, imagev, debugCopies, readLate, pageLimit, fetchv, extractCalls, scanv >>

\* part_001 after the scan loop: one call of the notifier with all the
\* barcodes found (an empty array when there is none), then the response
Finish_part_001 ==
  /\ pc = "scan"
  /\ variant = "part_001"
  /\ idx > Len(processFiles)
  /\ \E remote \in Remotes :
       notifications' =
         Append(notifications,
                Notification("batch", idx, key,
                             ResponseBarcodes(foundBarcodes).elems,
                             callRubyEndpoint(variant, endpointSet, tokenSet,
                                              remote)))
  /\ Return(200, ResponseBody(bucket, key, ResponseBarcodes(foundBarcodes)),
            "nil")
  /\ UNCHANGED << inputs, imagev, debugCopies, readLate, pageLimit, fetchv, extractCalls, processFiles, idx,
                  foundBarcodes, scanLog >>

Next ==
  \/ Start
  \/ ReadTestPDF
  \/ ReadEvent_pdf_go
  \/ ReadEvent_part_001
  \/ InitS3Client
  \/ GetObject
  \/ ReadBody_pdf_go
  \/ ReadBody_part_001
  \/ Validate
  \/ MkdirTemp
  \/ WriteTmpPDF
  \/ MkPagesDir
  \/ ExtractImages
  \/ DebugCopy
  \/ ListFiles
  \/ ScanFile
  \/ Finish_pdf_go
  \/ Finish_part_001

Spec == Init /\ [][Next]_vars

(***************************************************************************)
(* The image functions called on their own                                 *)
(***************************************************************************)
InitPreprocess ==
  /\ variant = "pdf_go"
  /\ testMode = FALSE
  /\ limitStr = << >>
  /\ event = ValidEvent
  /\ endpointSet = FALSE
  /\ tokenSet = FALSE
  /\ testDebug = FALSE
  /\ HandlerStart
  /\ raster \in Rasters
  /\ fusedMulAdd \in Builds
  /\ processed = NoImage
  /\ img = ImgBlank
  /\ decoded = NoResult
  /\ ipc = "call"

\* preprocessImage(raster)
CallPreprocess ==
  /\ ipc = "call"
  /\ processed' = preprocessImage(raster, fusedMulAdd)
  /\ ipc' = "returned"
  /\ UNCHANGED << handlerv, raster, fusedMulAdd, img, decoded >>

SpecPreprocess == InitPreprocess /\ [][CallPreprocess]_vars

InitDecode ==
  /\ variant = "pdf_go"
  /\ testMode = FALSE
  /\ limitStr = << >>
  /\ event = ValidEvent
  /\ endpointSet = FALSE
  /\ tokenSet = FALSE
  /\ testDebug = FALSE
  /\ HandlerStart
  /\ raster = EmptyRaster
  /\ fusedMulAdd = "separate"
  /\ processed = NoImage
  /\ img \in DecodeInputs
  /\ decoded = NoResult
  /\ ipc = "call"

\* extractBarcodeFromImage(img): img.Bounds() is called first, which
\* panics (nil pointer dereference) on the nil image
CallExtract ==
  /\ ipc = "call"
  /\ IF img.isNil
       THEN /\ ipc' = "panic"
            /\ UNCHANGED decoded
       ELSE /\ decoded' = extractBarcodeFromImage(img)
            /\ ipc' = "returned"
  /\ UNCHANGED << handlerv, raster, fusedMulAdd, processed, img >>

SpecDecode == InitDecode /\ [][CallExtract]_vars

(***************************************************************************)
(* Properties                                                              *)
(***************************************************************************)
\* the invocation returned after the scan loop ran to its end
ScanCompleted == pc = "done" /\ idx >= 1

\* s is a positive integer string: an optional "+" and decimal digits, not
\* all of them zero
PositiveIntString(s) ==
  LET ds == IF s # << >> /\ Head(s) = "+" THEN Tail(s) ELSE s
  IN  /\ ds # << >>
      /\ \A k \in 1..Len(ds) : ds[k] \in Digits
      /\ \E k \in 1..Len(ds) : ds[k] # "0"

\* C1: whenever the handler selects page images, the page limit it uses is
\* 1 unless PDF_PAGE_LIMIT is a positive integer string (unset, empty,
\* non-numeric, "0" and negative values all give 1).
C1_InvalidLimitDefaultsToOne ==
  (pc = "list" /\ ~PositiveIntString(limitStr)) => pageLimit = 1

\* the batch-level notifications among the calls of the notifier
BatchNotifications == SelectSeq(notifications, LAMBDA n : n.kind = "batch")

\* C2: every invocation that completes the page scan has issued, after the
\* last file and before the 200 response, exactly one batch-level
\* notification, which carries the complete batch (also when it is empty).
C2_TerminalBatchNotification ==
  ScanCompleted =>
    /\ response.status = 200
    /\ Len(BatchNotifications) = 1
    /\ notifications # << >>
    /\ notifications[Len(notifications)].kind = "batch"
    /\ notifications[Len(notifications)].barcodes = foundBarcodes.elems

\* the event lacks a required field
EventIncomplete(ev) == ev.records = 0 \/ ev.bucket = "" \/ ev.key = ""

\* C7: outside local-file mode an event without records, or with an empty
\* bucket or key, ends in a 400 response with a non-nil error, storage is
\* never contacted and the handler does not crash.
C7_IncompleteEventRejected ==
  (~testMode /\ EventIncomplete(event)) =>
    /\ pc # "panic"
    /\ storageCalls = 0
    /\ pc = "done" => (response.status = 400 /\ err # "nil")

\* s ends with suf
HasSuffix(s, suf) ==
  Len(s) >= Len(suf) /\ SubSeq(s, Len(s) - Len(suf) + 1, Len(s)) = suf

\* positions of "_" in name
Underscores(name) == {i \in 1..Len(name) : name[i] = "_"}

Least(S) == CHOOSE x \in S : \A y \in S : x <= y

\* the second "_"-delimited part of a name that contains "_": what stands
\* between the first "_" and the next one, or the end of the name
SecondPart(name) ==
  LET first == Least(Underscores(name))
      later == Underscores(name) \ {first}
      stop  == IF later = {} THEN Len(name) + 1 ELSE Least(later)
  IN  SubSeq(name, first + 1, stop - 1)

\* p is a decimal integer with an optional sign
IntegerString(p) ==
  LET ds == IF p # << >> /\ Head(p) \in {"+", "-"} THEN Tail(p) ELSE p
  IN  ds # << >> /\ \A k \in 1..Len(ds) : ds[k] \in Digits

RECURSIVE Pow10(_)
Pow10(n) == IF n = 0 THEN 1 ELSE 10 * Pow10(n - 1)

\* sum of digit * 10^position over the digits ds[k..]
RECURSIVE PlaceSum(_, _)
PlaceSum(ds, k) ==
  IF k > Len(ds) THEN 0
  ELSE (Ord(ds[k]) - 48) * Pow10(Len(ds) - k) + PlaceSum(ds, k + 1)

\* the integer an IntegerString denotes
IntegerValue(p) ==
  IF Head(p) = "-" THEN 0 - PlaceSum(Tail(p), 1)
  ELSE IF Head(p) = "+" THEN PlaceSum(Tail(p), 1)
  ELSE PlaceSum(p, 1)

\* the entries the page selector is to keep under the limit
Eligible(e, limit) ==
  /\ ~e.isDir
  /\ ~HasSuffix(e.name, <<".", "p", "d", "f">>)
  /\ Underscores(e.name) # {}
  /\ IntegerString(SecondPart(e.name))
  /\ IntegerValue(SecondPart(e.name)) <= limit

Range(seq) == {seq[k] : k \in 1..Len(seq)}

DirNames == {e.name : e \in dirEntries}

\* C3: the files selected for scanning are exactly the non-directory
\* entries whose extension is not .pdf and whose second "_"-part is an
\* integer <= the page limit, each selected once; the directory
\* {page_1_a.png, page_2_a.png, page_10_a.png, input.pdf} (and the pages
\* subdirectory) with limit 2 selects exactly page_1_a.png and page_2_a.png.
C3_SelectionIsEligibleEntries ==
  pc = "scan" =>
    /\ Range(processFiles) =
         {e.name : e \in {d \in dirEntries : Eligible(d, pageLimit)}}
    /\ Cardinality(Range(processFiles)) = Len(processFiles)
    /\ (DirNames = {Page1, Page2, Page10, InputPDF, PagesDir} /\ pageLimit = 2)
         => processFiles = << Page1, Page2 >>

\* the example directory of C3 was listed with limit 2, which left out
\* page_10_a.png and input.pdf
C3_Witness ==
  /\ pc = "scan"
  /\ DirNames = {Page1, Page2, Page10, InputPDF, PagesDir}
  /\ pageLimit = 2
  /\ Range(processFiles) = {Page1, Page2}

\* a precedes b in bytewise lexicographic order
LexBefore(a, b) ==
  \E k \in 1..Len(b) :
    /\ k - 1 <= Len(a)
    /\ \A j \in 1..(k - 1) : a[j] = b[j]
    /\ k > Len(a) \/ Ord(a[k]) < Ord(b[k])

Swap(L, i, j) ==
  [k \in 1..Len(L) |-> IF k = i THEN L[j] ELSE IF k = j THEN L[i] ELSE L[k]]

Reverse(L) == [k \in 1..Len(L) |-> L[Len(L) + 1 - k]]

\* the listing with two entries exchanged, or reversed
Reorderings(L) ==
  {Swap(L, i, j) : i \in 1..Len(L), j \in 1..Len(L)} \cup {Reverse(L)}

\* C4: the files are scanned in ascending lexicographic order of their
\* names, whatever their page numbers (page_10_a.png before page_2_a.png),
\* and the scan order computed from a reordered listing is the same.
C4_ScanOrderLexicographic ==
  /\ \A i, j \in 1..Len(scanLog) :
       i < j => LexBefore(scanLog[i].file, scanLog[j].file)
  /\ pc = "scan" =>
       \A i, j \in 1..Len(processFiles) :
         i < j => LexBefore(processFiles[i], processFiles[j])
  /\ (pc = "scan" /\ scanLog = << >>) =>
       \A L \in Reorderings(ReadDir(dirEntries)) :
         ProcessOrder(SelectFiles(L, pageLimit)) = processFiles

\* page_10_a.png was scanned before page_2_a.png
C4_Witness ==
  \E i, j \in 1..Len(scanLog) :
    i < j /\ scanLog[i].file = Page10 /\ scanLog[j].file = Page2

\* C5: an invocation that completes the page scan returns status 200 and a
\* JSON body with the fields bucket, key and barcodes, barcodes being the
\* accumulated batch as an array: the empty array, never null, when nothing
\* was found.
C5_SuccessBodyCarriesBatch ==
  ScanCompleted =>
    /\ response.status = 200
    /\ response.body.kind = "json"
    /\ DOMAIN response.body = {"kind", "bucket", "key", "barcodes"}
    /\ response.body.bucket = bucket
    /\ response.body.key = key
    /\ ~response.body.barcodes.null
    /\ response.body.barcodes.items = foundBarcodes.elems

\* a scan that found nothing ended, once with no image extracted
C5_Witness ==
  /\ ScanCompleted
  /\ processFiles = << >>
  /\ foundBarcodes.elems = << >>
  /\ response.status = 200

PDFHeader == <<"%", "P", "D", "F">>

\* the bytes are empty, shorter than 4 bytes or do not begin with "%PDF"
BadDocument(bytes) ==
  \/ Len(bytes) < 4
  \/ \E k \in 1..4 : bytes[k] # PDFHeader[k]

\* C6: once bytes that are empty, shorter than 4 bytes or without the
\* "%PDF" header were fetched, the invocation can only return status 400
\* with a non-nil error; it extracts no image, scans no page and sends no
\* notification.
C6_BadDocumentRejected ==
  (fetched /\ BadDocument(pdfBytes)) =>
    /\ pc \in {"validate", "done"}
    /\ pc = "done" => (response.status = 400 /\ err # "nil")
    /\ extractCalls = 0
    /\ tmpDir = "none"
    /\ idx = 0
    /\ scanLog = << >>
    /\ notifications = << >>

\* a document of at least 4 bytes without the header was rejected
C6_Witness ==
  /\ fetched
  /\ Len(pdfBytes) >= 4
  /\ BadDocument(pdfBytes)
  /\ pc = "done"
  /\ response.status = 400

\* the iteration at position k of the scan failed: the file could not be
\* opened or parsed, or the decode returned an error
FailedAt(k) == scanLog[k].branch \in {"skip", "failed"}

\* C8: whatever files fail, the scan attempts the selected files one after
\* the other without leaving any out, and an invocation that reaches the
\* scan ends with status 200 and a nil error after attempting all of them.
C8_FailuresDoNotAbortScan ==
  /\ Len(scanLog) <= Len(processFiles)
  /\ \A k \in 1..Len(scanLog) : scanLog[k].file = processFiles[k]
  /\ pc = "scan" => Len(scanLog) = idx - 1
  /\ ScanCompleted =>
       /\ Len(scanLog) = Len(processFiles)
       /\ response.status = 200
       /\ err = "nil"

\* a scan ended in which a file was attempted after a failing one
C8_Witness ==
  /\ ScanCompleted
  /\ \E k \in 1..Len(scanLog) : FailedAt(k) /\ k < Len(scanLog)

\* the texts of the log entries whose branch is in branches, in scan order
RECURSIVE TextsOf(_, _)
TextsOf(log, branches) ==
  IF log = << >> THEN << >>
  ELSE IF Head(log).branch \in branches
    THEN << Head(log).text >> \o TextsOf(Tail(log), branches)
  ELSE TextsOf(Tail(log), branches)

IsPrefix(a, b) == Len(a) <= Len(b) /\ SubSeq(b, 1, Len(a)) = a

\* C9 as stated: when the scan ends the batch holds one entry for every
\* file whose decoder cascade succeeded, in scan order.
C9_BatchIsEverySuccessfulDecode ==
  ScanCompleted => foundBarcodes.elems = TextsOf(scanLog, {"found", "empty"})

\* C9 amended: the batch is at every point the sequence of the non-empty
\* texts decoded so far, one entry per such decode in scan order (equal
\* texts of different files each appear), and it only grows at its end.
C9_BatchIsNonEmptyDecodes ==
  /\ [](foundBarcodes.elems = TextsOf(scanLog, {"found"}))
  /\ [][IsPrefix(foundBarcodes.elems, foundBarcodes'.elems)]_vars

\* a scan ended whose batch holds the same text twice
C9_Witness ==
  /\ ScanCompleted
  /\ \E i, j \in 1..Len(foundBarcodes.elems) :
       i < j /\ foundBarcodes.elems[i] = foundBarcodes.elems[j]

\* the response of the run over the same files in which every notification
\* succeeds
ResponseWithoutFailures ==
  [status |-> 200,
   body |-> [kind |-> "json", bucket |-> bucket, key |-> key,
             barcodes |-> [null |-> FALSE,
                           items |-> TextsOf(scanLog, {"found"})]]]

\* the step calls the notifier for a page and the call returns an error
PageNotificationFails ==
  /\ Len(notifications') = Len(notifications) + 1
  /\ notifications'[Len(notifications')].kind = "page"
  /\ notifications'[Len(notifications')].err # "nil"

\* C10: a failing notification changes nothing: the step in which a
\* per-page notification fails still appends the text and moves on to the
\* next file, and the invocation ends with the response, the nil error and
\* the batch of the run without notification failures.
C10_NotifyFailureKeepsOutcome ==
  /\ [](ScanCompleted =>
          /\ response = ResponseWithoutFailures
          /\ err = "nil"
          /\ foundBarcodes.elems = TextsOf(scanLog, {"found"})
          /\ Len(scanLog) = Len(processFiles))
  /\ [][PageNotificationFails =>
          /\ pc' = "scan"
          /\ idx' = idx + 1
          /\ foundBarcodes'.elems =
               Append(foundBarcodes.elems, scanLog'[Len(scanLog')].text)
          /\ response' = response]_vars

\* a scan ended in which a per-page notification failed and a later file
\* was attempted, and the batch notification failed too
C10_Witness ==
  /\ ScanCompleted
  /\ \E k \in 1..Len(notifications) :
       /\ notifications[k].kind = "page"
       /\ notifications[k].err # "nil"
       /\ notifications[k].at < Len(scanLog)
  /\ \E k \in 1..Len(notifications) :
       notifications[k].kind = "batch" /\ notifications[k].err # "nil"

\* the per-page notifications the log entries from position k on call
\* for, one for every entry whose branch is in branches: the position,
\* the text and the document key
RECURSIVE PageNotesFor(_, _, _)
PageNotesFor(log, k, branches) ==
  IF log = << >> THEN << >>
  ELSE (IF Head(log).branch \in branches
          THEN << [at |-> k, text |-> Head(log).text, s3key |-> key] >>
          ELSE << >>)
         \o PageNotesFor(Tail(log), k + 1, branches)

\* the per-page calls of the notifier so far, in the order they were made
RECURSIVE PageNotesSent(_)
PageNotesSent(ns) ==
  IF ns = << >> THEN << >>
  ELSE (IF Head(ns).kind = "page"
          THEN << [at |-> Head(ns).at, text |-> Head(ns).barcodes,
                   s3key |-> Head(ns).s3key] >>
          ELSE << >>)
         \o PageNotesSent(Tail(ns))

\* the per-page notification of one text carries that text alone
OneText(notes) ==
  [k \in 1..Len(notes) |->
     [at |-> notes[k].at, text |-> << notes[k].text >>,
      s3key |-> notes[k].s3key]]

\* the step calls the notifier for a page
PageNotified ==
  /\ Len(notifications') = Len(notifications) + 1
  /\ notifications'[Len(notifications')].kind = "page"

\* C11 as stated: every selected file whose decoder cascade succeeds gets
\* exactly one per-page notification carrying its text and the document
\* key, and a file whose cascade or loading fails gets none.
C11_EverySuccessNotifiedOnce ==
  PageNotesSent(notifications) =
    OneText(PageNotesFor(scanLog, 1, {"found", "empty"}))

\* C11 amended: the per-page notifications are, in scan order, exactly one
\* for every file whose cascade returned a non-empty text, each carrying
\* that text alone and the document key; a file that failed to load or
\* decode, or whose cascade succeeded with an empty text, gets none; and
\* the notification is issued in the step that appended the text to the
\* batch, before the next file is loaded.
C11_NonEmptyDecodeNotifiedOnce ==
  /\ [](PageNotesSent(notifications) =
          OneText(PageNotesFor(scanLog, 1, {"found"})))
  /\ [][PageNotified =>
          /\ pc = "scan" /\ pc' = "scan"
          /\ notifications'[Len(notifications')].at = idx
          /\ Len(scanLog') = idx
          /\ idx' = idx + 1
          /\ foundBarcodes'.elems =
               Append(foundBarcodes.elems, scanLog'[idx].text)]_vars

\* a scan ended in which a file that decoded to a text was notified, a
\* file that failed was not, and a later file was notified after it
C11_Witness ==
  /\ ScanCompleted
  /\ \E i, j \in 1..Len(scanLog) :
       /\ i < j
       /\ FailedAt(i)
       /\ scanLog[j].branch = "found"
       /\ \E k \in 1..Len(notifications) :
            /\ notifications[k].kind = "page"
            /\ notifications[k].at = j
            /\ notifications[k].barcodes = << scanLog[j].text >>

\* the order in which the cascade holds its readers
CascadeOrder == <<"UPC/EAN", "Code128", "Code39", "Code93", "ITF", "CodaBar">>

\* extractBarcodeFromImage returned for an image whose bitmap was built
CascadeRan == ipc = "returned" /\ img.bitmapOK

\* the readers that decode the image
Succeeding == {r \in 1..6 : img.decode[r].ok}

\* C12: the readers are invoked in the order UPC/EAN, Code128, Code39,
\* Code93, ITF, CodaBar; a reader is invoked only if every reader before
\* it failed; the text of the first reader that succeeds is returned and
\* no reader after it is invoked.
C12_FirstSuccessInFixedOrder ==
  CascadeRan =>
    /\ Len(decoded.tried) <= 6
    /\ decoded.tried = SubSeq(CascadeOrder, 1, Len(decoded.tried))
    /\ \A k \in 1..Len(decoded.tried) :
         \A j \in 1..(k - 1) : ~img.decode[j].ok
    /\ Succeeding # {} =>
         LET first == CHOOSE r \in Succeeding :
                        \A q \in Succeeding : r <= q
         IN  /\ decoded.text = img.decode[first].text
             /\ decoded.err = "nil"
             /\ Len(decoded.tried) = first
    /\ Succeeding = {} => Len(decoded.tried) = 6

\* the cascade returned the text of the third reader although the fifth
\* reader decodes the image to another text
C12_Witness ==
  /\ CascadeRan
  /\ Succeeding = {3, 5}
  /\ img.decode[3].text # img.decode[5].text
  /\ decoded.text = img.decode[3].text
  /\ decoded.tried = <<"UPC/EAN", "Code128", "Code39">>

\* C13: when all six readers fail, the cascade returns an empty text and
\* a non-nil error that carries the failure of the last reader, CodaBar,
\* and of no reader before it.
C13_AllFailReportsLastReader ==
  (CascadeRan /\ Succeeding = {}) =>
    /\ decoded.text = ""
    /\ decoded.err = "no barcode found"
    /\ decoded.lastErr = [reader |-> "CodaBar", reason |-> img.decode[6].err]

\* all six readers failed, the last for another reason than the others
C13_Witness ==
  /\ CascadeRan
  /\ Succeeding = {}
  /\ \A r \in 1..5 : img.decode[r].err # img.decode[6].err
  /\ decoded.lastErr.reason = img.decode[6].err

\* preprocessImage returned
Preprocessed == ipc = "returned"

Width  == raster.bounds.maxX - raster.bounds.minX
Height == raster.bounds.maxY - raster.bounds.minY

\* the luminance of the pixels of region k of the input, as the first
\* pass computes it
Luminance(k) == GrayVal(raster.pix[k], fusedMulAdd)

Regions == 1..Len(raster.pix)

\* the difference between the largest and the smallest luminance of the
\* input
MeasuredRange ==
  LET ls == {Luminance(k) : k \in Regions}
  IN  (CHOOSE hi \in ls : \A l \in ls : l <= hi)
        - (CHOOSE lo \in ls : \A l \in ls : lo <= l)

\* C14: an image less than 100 pixels wide or less than 100 pixels high
\* is stretched over the forced range 0..255 whatever range it has: each
\* output pixel is 255 when the luminance of the pixel is above 128 and 0
\* otherwise, and the plain grayscale is never returned.
C14_SmallImageForcedRange ==
  (Preprocessed /\ (Width < 100 \/ Height < 100)) =>
    /\ Len(processed.pix) = Len(raster.pix)
    /\ \A k \in Regions :
         processed.pix[k] = IF Luminance(k) > 128 THEN 255 ELSE 0

\* an image 99 wide and 100 high whose luminances 127 and 129 lie within a
\* range of 2 came back as 0 and 255
C14_Witness ==
  /\ Preprocessed
  /\ Width = 99 /\ Height = 100
  /\ raster.pix = << Grey(128), Grey(129) >>
  /\ MeasuredRange < 30
  /\ processed.pix = << 0, 255 >>

\* C15: an image at least 100 wide and 100 high whose luminance range is
\* below 30 comes back as its grayscale: every pixel is the luminance
\* 0.299R + 0.587G + 0.114B of the source pixel as the first pass
\* computes and truncates it, neither stretched nor thresholded.
C15_LowContrastKeepsGrayscale ==
  (Preprocessed /\ Width >= 100 /\ Height >= 100 /\ MeasuredRange < 30) =>
    /\ Len(processed.pix) = Len(raster.pix)
    /\ \A k \in Regions : processed.pix[k] = Luminance(k)

\* an image 100 by 100 with the luminances 100 and 129, a range of 29,
\* came back with these two values
C15_Witness ==
  /\ Preprocessed
  /\ Width = 100 /\ Height = 100
  /\ raster.pix = << Grey(100), Grey(129) >>
  /\ processed.pix = << 100, 129 >>

\* C16: in the stretching branch, taken for a small image and for an
\* image whose range is at least 30, every output pixel is 0 or 255.
C16_StretchedIsBinary ==
  (Preprocessed /\ Regions # {}
     /\ (Width < 100 \/ Height < 100 \/ MeasuredRange >= 30)) =>
    \A k \in Regions : processed.pix[k] \in {0, 255}

\* an image 100 by 100 with a range of exactly 30 came back with its
\* darkest pixels at 0 and its brightest at 255
C16_Witness ==
  /\ Preprocessed
  /\ Width = 100 /\ Height = 100
  /\ raster.pix = << Grey(100), Grey(130) >>
  /\ processed.pix = << 0, 255 >>

\* C17: preprocessImage returns for every image, an image of one colour
\* included: the image returned has the bounds of the input and as many
\* pixels, and no division by zero took place.
C17_PreprocessTotal ==
  Preprocessed =>
    /\ processed.bounds = raster.bounds
    /\ Len(processed.pix) = Len(raster.pix)
    /\ ~processed.divByZero

\* an image of one colour, 100 by 100 and away from the origin, came back
\* with its bounds
C17_Witness ==
  /\ Preprocessed
  /\ raster.bounds = Rect(10, 20, 110, 120)
  /\ raster.pix = << Grey(128), Grey(128) >>
  /\ processed.bounds = Rect(10, 20, 110, 120)
  /\ processed.pix = << 127, 127 >>

\* HandleRequest returned
Returned == pc = "done"

\* the copies of extracted page images that lie in /tmp/pdf-debug
PageImageCopies ==
  {n \in debugCopies : HasSuffix(n, <<".", "p", "n", "g">>)}

\* C18 as stated: when HandleRequest has returned, the temporary directory, if it
\* was created, is deleted with everything in it, and no copy of an
\* extracted page image is left on disk.
C18_NoArtifactRemains ==
  Returned =>
    /\ tmpDir # "exists"
    /\ dirEntries = {}
    /\ PageImageCopies = {}

\* C18 amended: whenever HandleRequest has returned, on a failure as well
\* as on success, the temporary directory, if it was created, is deleted
\* with everything in it, and it never outlives a handler that stopped;
\* unless TEST_DEBUG is "true" no copy of an extracted file is left
\* anywhere (with TEST_DEBUG=true the copies written to /tmp/pdf-debug
\* stay).
C18_TempDirRemovedOnEveryExit ==
  /\ pc \in {"done", "panic", "blocked"} =>
       /\ tmpDir # "exists"
       /\ dirEntries = {}
  /\ ~testDebug => debugCopies = {}

\* HandleRequest returned on the failure to list the extracted files: the
\* directory is deleted, and a copy of a page image lies in /tmp/pdf-debug
C18_Witness ==
  /\ Returned
  /\ response.body = TextBody("Error reading extracted images")
  /\ tmpDir = "removed"
  /\ dirEntries = {}
  /\ PageImageCopies # {}

\* C19: when the body of the object was still being read 30 seconds after
\* the fetch began, HandleRequest has returned status 500 with a timeout
\* error that differs from the read error, and nothing was extracted,
\* scanned, notified or collected.
C19_FetchTimeoutAborts ==
  readLate =>
    /\ Returned
    /\ response.status = 500
    /\ err \notin {"nil", "read error"}
    /\ response.body \notin {TextBody("Error reading PDF"),
                              TextBody("Error reading PDF from S3")}
    /\ extractCalls = 0
    /\ scanLog = << >>
    /\ notifications = << >>
    /\ foundBarcodes.elems = << >>

\* C20: a call of the notifier made while the endpoint or the credential
\* is not configured sends no HTTP request and returns an error, and a
\* call answered with a status other than 200 returns an error.
C20_NotifyNeedsEndpointAndCredential ==
  \A k \in 1..Len(notifications) :
    /\ (~endpointSet \/ ~tokenSet) =>
         /\ ~notifications[k].sent
         /\ notifications[k].err # "nil"
    /\ (notifications[k].sent /\ notifications[k].status # 200) =>
         notifications[k].err # "nil"

\* the step is a fetch, read or extraction that fails: the local file or
\* the object body is not read, the storage client or GetObject gives an
\* error, or the image extractor gives an error (a read that never ends
\* is no failure)
FetchOrExtractFails ==
  \/ pc \in {"read_local", "readbody"} /\ ~fetched' /\ pc' # "blocked"
  \/ pc = "s3client" /\ pc' # "getobject"
  \/ pc = "getobject" /\ pc' # "readbody"
  \/ pc = "extract" /\ pc' # "debug"

\* C21: the step in which the document cannot be fetched or read, or in
\* which the image extraction fails, returns status 500 with a non-nil
\* error; no page was scanned and no notification sent.
C21_FetchOrExtractFailureIs500 ==
  [][FetchOrExtractFails =>
       /\ pc' = "done"
       /\ response'.status = 500
       /\ response'.body.kind = "text"
       /\ err' # "nil"
       /\ processFiles' = << >>
       /\ scanLog' = << >>
       /\ notifications' = << >>
       /\ foundBarcodes'.elems = << >>]_vars

\* the handler returned 500 after the image extractor failed on a
\* document read from storage
C21_Witness ==
  /\ Returned
  /\ ~testMode
  /\ fetched
  /\ extractCalls = 1
  /\ response = [status |-> 500,
                 body |-> TextBody("Error extracting images from PDF")]
  /\ err # "nil"
  /\ scanLog = << >>

\* C24: whenever HandleRequest has returned, the error is non-nil exactly
\* when the status is not 200: a 400 or 500 response has a non-nil error
\* and a plain-text body, which has no barcodes field, and a 200 response
\* has a nil error and a JSON body.
C24_ErrorIffNot200 ==
  Returned =>
    /\ response.status \in {200, 400, 500}
    /\ (err # "nil") <=> (response.status # 200)
    /\ response.status # 200 =>
         /\ response.body.kind = "text"
         /\ "barcodes" \notin DOMAIN response.body
    /\ response.status = 200 =>
         /\ response.body.kind = "json"
         /\ "barcodes" \in DOMAIN response.body

\* the handler returned 400 for a document that is no PDF, with an error
\* and a plain-text body
C24_Witness ==
  /\ Returned
  /\ fetched
  /\ response = [status |-> 400, body |-> TextBody("Invalid PDF format")]
  /\ err = "invalid PDF format"

\* the second pass runs: the image is small or its range is at least 30
Stretching ==
  /\ Preprocessed
  /\ Regions # {}
  /\ (Width < 100 \/ Height < 100 \/ MeasuredRange >= 30)

\* the min and max the second pass uses: 0 and 255 for a small image, the
\* smallest and largest luminance of the input otherwise
UsedMin ==
  IF Width < 100 \/ Height < 100 THEN 0
  ELSE CHOOSE lo \in {Luminance(k) : k \in Regions} :
         \A k \in Regions : lo <= Luminance(k)

UsedMax ==
  IF Width < 100 \/ Height < 100 THEN 255
  ELSE CHOOSE hi \in {Luminance(k) : k \in Regions} :
         \A k \in Regions : Luminance(k) <= hi

\* C22 as stated: in the stretching branch the output pixel is 255 exactly
\* when (original - min) / (max - min) * 255 rounded to the nearest integer
\* is greater than 128, which is when twice the product is at least 257
\* times max - min, and 0 otherwise.
C22_ThresholdOnRounded ==
  Stretching =>
    \A k \in Regions :
      processed.pix[k] =
        IF 2 * 255 * (Luminance(k) - UsedMin) >= 257 * (UsedMax - UsedMin)
          THEN 255 ELSE 0

\* C22 amended: in the stretching branch the output pixel is 255 exactly
\* when (original - min) / (max - min) * 255 truncated to an integer is
\* greater than 128, which is when the product is at least 129 times
\* max - min, and 0 otherwise.
C22_ThresholdOnTruncated ==
  Stretching =>
    \A k \in Regions :
      processed.pix[k] =
        IF 255 * (Luminance(k) - UsedMin) >= 129 * (UsedMax - UsedMin)
          THEN 255 ELSE 0

\* an image 100 by 100 with the luminances 0, 121 and 240: the middle one
\* stretches to 128.56, which truncates to 128 and comes back as 0
C22_Witness ==
  /\ Stretching
  /\ Width = 100 /\ Height = 100
  /\ raster.pix = << Grey(0), Grey(121), Grey(240) >>
  /\ UsedMin = 0 /\ UsedMax = 240
  /\ processed.pix = << 0, 0, 255 >>

\* C23: when the image is invalid or the binary bitmap of the preprocessed
\* image cannot be built, extractBarcodeFromImage returns, with an empty
\* text and an error other than 'no barcode found', and has invoked no
\* reader; it does not crash.
C23_BadImageIsAnErrorNotACrash ==
  (ipc # "call" /\ (img.isNil \/ ~img.bitmapOK)) =>
    /\ ipc = "returned"
    /\ decoded.text = ""
    /\ decoded.err \notin {"nil", "no barcode found"}
    /\ decoded.tried = << >>
====
